---------------------------- MODULE Spec2Model ----------------------------
(***************************************************************************)
(* SimpleCalc: the expression buffer, its display, the evaluator and the   *)
(* memory register of the calculator, in its plain variant (src/script.js, *)
(* and src/unnamed/part_001, whose buffer code is the same) and in its     *)
(* richer variant (src/unnamed/part_000).                                  *)
(*                                                                         *)
(* Strings are sequences of one-character strings.  A JavaScript value is  *)
(* a record [k, n, d, e, s]:                                               *)
(*   k = "num"     the finite number n/d (d > 0, lowest terms); n = 0 is +0*)
(*   k = "negzero" -0          k = "nan" NaN                               *)
(*   k = "inf" / "ninf"        +Infinity / -Infinity                       *)
(*   k = "str"     the string s                                            *)
(*   k = "regex"   the RegExp object whose source is s                     *)
(*   k = "undef"   undefined                                               *)
(*   k = "throw"   the evaluation threw (SyntaxError or TypeError)         *)
(*   k = "oor"     a number outside the range this model represents        *)
(* e counts the roundings that separate the IEEE double the engine holds   *)
(* from the exact n/d: 0 means the double is n/d exactly, 1 that it is the *)
(* correctly rounded n/d.  Handlers are enabled only where no value is     *)
(* "oor", so every modelled result is the one the engine produces.         *)
(***************************************************************************)
EXTENDS Integers, Sequences, FiniteSets

\* variant: which file runs; buffer: the expression buffer; display:
\* displayEl.textContent; memory: localStorage[MEMORY_KEY]; last: the handler
\* that last wrote the buffer, its argument and the branch it took; page: the
\* data-theme attribute of the document ("none" before the theme is applied),
\* localStorage[THEME_KEY], the system colour scheme, and of the last handler
\* which storage accesses threw and whether an exception left it
VARIABLES variant, buffer, display, memory, last, page

vars == <<variant, buffer, display, memory, last, page>>

-----------------------------------------------------------------------------
(* Bounds of the model *)

\* longest buffer that append still extends
MaxLen == 3
\* largest numerator and denominator of a represented number
MaxMag == 1000
\* most roundings a represented number may have accumulated
MaxErr == 3
\* largest numerator and denominator of a number the memory register is given
MaxMem == 1
\* longest text a handler writes into the buffer
MaxOut == 9

-----------------------------------------------------------------------------
(* Characters and strings *)

DigitChars == <<"0", "1", "2", "3", "4", "5", "6", "7", "8", "9">>

IsDigit(c) == \E i \in 1..10 : DigitChars[i] = c

DigitVal(c) == (CHOOSE i \in 1..10 : DigitChars[i] = c) - 1

IsOctalDigit(c) == IsDigit(c) /\ DigitVal(c) <= 7

IsSpace(c) == c = " "

ErrorStr == <<"E", "r", "r", "o", "r">>
NaNStr == <<"N", "a", "N">>
InfinityStr == <<"I", "n", "f", "i", "n", "i", "t", "y">>
UndefinedStr == <<"u", "n", "d", "e", "f", "i", "n", "e", "d">>

-----------------------------------------------------------------------------
(* JavaScript values *)

Val(k, n, d, e, s) == [k |-> k, n |-> n, d |-> d, e |-> e, s |-> s]

NaNV == Val("nan", 0, 1, 0, <<>>)
InfV == Val("inf", 0, 1, 0, <<>>)
NInfV == Val("ninf", 0, 1, 0, <<>>)
NegZeroV == Val("negzero", 0, 1, 0, <<>>)
ZeroV == Val("num", 0, 1, 0, <<>>)
UndefV == Val("undef", 0, 1, 0, <<>>)
ThrowV == Val("throw", 0, 1, 0, <<>>)
OorV == Val("oor", 0, 1, 0, <<>>)
StrV(s) == Val("str", 0, 1, 0, s)
RegexV(s) == Val("regex", 0, 1, 0, s)

Abs(x) == IF x < 0 THEN -x ELSE x

RECURSIVE GCD(_, _)
GCD(a, b) == IF b = 0 THEN a ELSE GCD(b, a % b)

RECURSIVE IsPow2(_)
IsPow2(d) == IF d = 1 THEN TRUE ELSE IF d % 2 = 0 THEN IsPow2(d \div 2) ELSE FALSE

\* n/d in lowest terms, g being the greatest common divisor of n and d
Lowest(n, d, e, g) ==
    IF Abs(n \div g) > MaxMag \/ d \div g > MaxMag \/ e > MaxErr THEN OorV
    ELSE Val("num", n \div g, d \div g, e, <<>>)

\* the finite number n/d (d > 0) after e roundings; a zero keeps the sign neg
Num(n, d, e, neg) ==
    IF n = 0 THEN (IF neg THEN NegZeroV ELSE ZeroV)
    ELSE Lowest(n, d, e, GCD(Abs(n), d))

\* one rounding of an exact result: none when the result is a double itself
Round1(xe, ye, d, n) ==
    IF xe = 0 /\ ye = 0
    THEN (IF IsPow2(d \div GCD(Abs(n), d)) THEN 0 ELSE 1)
    ELSE xe + ye + 1

IsZero(v) == v.k = "negzero" \/ (v.k = "num" /\ v.n = 0)
IsFinite(v) == v.k \in {"num", "negzero"}
IsNumber(v) == v.k \in {"num", "negzero", "nan", "inf", "ninf"}
\* the sign bit of a number that is not NaN
Negative(v) == v.k \in {"negzero", "ninf"} \/ (v.k = "num" /\ v.n < 0)

\* ToNumber: a RegExp or a string built from one never reads as a number
ToNumber(v) ==
    IF v.k \in {"str", "regex", "undef"} THEN NaNV ELSE v

Neg(v) ==
    CASE v.k = "num" -> (IF v.n = 0 THEN NegZeroV ELSE [v EXCEPT !.n = -v.n])
      [] v.k = "negzero" -> ZeroV
      [] v.k = "inf" -> NInfV
      [] v.k = "ninf" -> InfV
      [] OTHER -> v

\* x + y on numbers (IEEE 754 addition)
AddNum(x, y) ==
    IF x.k = "oor" \/ y.k = "oor" THEN OorV
    ELSE IF x.k = "nan" \/ y.k = "nan" THEN NaNV
    ELSE IF x.k \in {"inf", "ninf"}
         THEN (IF y.k \in {"inf", "ninf"} /\ y.k # x.k THEN NaNV ELSE x)
    ELSE IF y.k \in {"inf", "ninf"} THEN y
    ELSE IF IsZero(x) /\ IsZero(y)
         THEN (IF x.k = "negzero" /\ y.k = "negzero" THEN NegZeroV ELSE ZeroV)
    ELSE IF IsZero(x) THEN y
    ELSE IF IsZero(y) THEN x
    ELSE LET n == x.n * y.d + y.n * x.d
             d == x.d * y.d
             exact == x.e = 0 /\ y.e = 0
             cancels == (x.n < 0) # (y.n < 0)
         IN  IF exact \/ ~cancels THEN Num(n, d, Round1(x.e, y.e, d, n), FALSE)
             ELSE IF n = 0
                  THEN (IF x.e <= 1 /\ y.e <= 1 THEN ZeroV ELSE OorV)
             ELSE IF Abs(x.n) * y.d + Abs(y.n) * x.d <= 2 * Abs(n)
                  THEN Num(n, d, 2 * (x.e + y.e) + 1, FALSE)
             ELSE OorV

MulNum(x, y) ==
    IF x.k = "oor" \/ y.k = "oor" THEN OorV
    ELSE IF x.k = "nan" \/ y.k = "nan" THEN NaNV
    ELSE LET neg == Negative(x) # Negative(y)
         IN  IF x.k \in {"inf", "ninf"} \/ y.k \in {"inf", "ninf"}
             THEN (IF IsZero(x) \/ IsZero(y) THEN NaNV
                   ELSE IF neg THEN NInfV ELSE InfV)
             ELSE Num(x.n * y.n, x.d * y.d,
                      Round1(x.e, y.e, x.d * y.d, x.n * y.n), neg)

DivNum(x, y) ==
    IF x.k = "oor" \/ y.k = "oor" THEN OorV
    ELSE IF x.k = "nan" \/ y.k = "nan" THEN NaNV
    ELSE LET neg == Negative(x) # Negative(y)
         IN  IF x.k \in {"inf", "ninf"}
             THEN (IF y.k \in {"inf", "ninf"} THEN NaNV
                   ELSE IF neg THEN NInfV ELSE InfV)
             ELSE IF y.k \in {"inf", "ninf"}
             THEN (IF neg THEN NegZeroV ELSE ZeroV)
             ELSE IF IsZero(y)
             THEN (IF IsZero(x) THEN NaNV ELSE IF neg THEN NInfV ELSE InfV)
             ELSE LET n == (IF y.n < 0 THEN -1 ELSE 1) * x.n * y.d
                      d == x.d * Abs(y.n)
                  IN  Num(n, d, Round1(x.e, y.e, d, n), neg)

\* x % y: the remainder truncates towards zero and keeps the dividend's sign;
\* it is exact on doubles, so it is represented for exact operands only
ModNum(x, y) ==
    IF x.k = "oor" \/ y.k = "oor" THEN OorV
    ELSE IF x.k = "nan" \/ y.k = "nan" THEN NaNV
    ELSE IF x.k \in {"inf", "ninf"} \/ IsZero(y) THEN NaNV
    ELSE IF y.k \in {"inf", "ninf"} \/ IsZero(x) THEN x
    ELSE IF x.e # 0 \/ y.e # 0 THEN OorV
    ELSE LET a == Abs(x.n) * y.d
             b == Abs(y.n) * x.d
             r == a % b
         IN  Num((IF x.n < 0 THEN -1 ELSE 1) * r, x.d * y.d, 0, x.n < 0)

\* x ** k for an integer k >= 0, by repeated multiplication
RECURSIVE PowNat(_, _)
PowNat(x, k) ==
    IF k = 0 THEN Val("num", 1, 1, 0, <<>>)
    ELSE LET p == PowNat(x, k - 1)
         IN  IF p.k = "oor" THEN OorV
             ELSE Num(p.n * x.n, p.d * x.d, 0, FALSE)

\* the power q of x ** y, rounded unless it is a double itself
PowRounded(x, y, q) ==
    IF q.k = "oor" THEN OorV
    ELSE IF x.e = 0 /\ IsPow2(q.d) THEN q
    ELSE Num(q.n, q.d, x.e * Abs(y.n) + 2, FALSE)

\* x ** y from p = x ** |y|: the reciprocal for a negative y
PowSigned(x, y, p) ==
    PowRounded(x, y,
               IF y.n > 0 \/ p.k = "oor" THEN p
               ELSE Num((IF p.n < 0 THEN -1 ELSE 1) * p.d, Abs(p.n), 0, FALSE))

\* x ** y: represented for a finite base and an integer exponent
PowNum(x, y) ==
    IF y.k = "nan" THEN (IF x.k = "oor" THEN OorV ELSE NaNV)
    ELSE IF IsZero(y) THEN Val("num", 1, 1, 0, <<>>)
    ELSE IF x.k = "oor" \/ y.k = "oor" THEN OorV
    ELSE IF x.k = "nan" THEN NaNV
    ELSE IF ~IsFinite(x) \/ ~IsFinite(y) THEN OorV
    ELSE IF y.d # 1 \/ Abs(y.n) > MaxMag THEN OorV
    ELSE LET odd == y.n % 2 = 1
         IN  IF IsZero(x)
             THEN (IF y.n > 0
                   THEN (IF x.k = "negzero" /\ odd THEN NegZeroV ELSE ZeroV)
                   ELSE (IF x.k = "negzero" /\ odd THEN NInfV ELSE InfV))
             ELSE IF Abs(y.n) > 10 /\ Abs(x.n) # x.d THEN OorV
             ELSE PowSigned(x, y, PowNat(x, IF Abs(x.n) = x.d THEN y.n % 2 ELSE Abs(y.n)))

\* Math.sqrt: represented where the root is rational
SqrtNum(x) ==
    IF x.k \in {"oor", "nan", "inf", "negzero"} THEN x
    ELSE IF x.k = "ninf" \/ x.n < 0 THEN NaNV
    ELSE IF x.n = 0 THEN x
    ELSE IF \E a \in 1..x.n : a * a = x.n /\ \E b \in 1..x.d : b * b = x.d
         THEN LET a == CHOOSE a \in 1..x.n : a * a = x.n
                  b == CHOOSE b \in 1..x.d : b * b = x.d
              IN  Num(a, b, IF x.e = 0 THEN (IF IsPow2(b) THEN 0 ELSE 1) ELSE x.e + 1, FALSE)
         ELSE OorV

-----------------------------------------------------------------------------
(* Number to string *)

RECURSIVE NatDigits(_)
NatDigits(n) ==
    IF n < 10 THEN <<DigitChars[n + 1]>>
    ELSE Append(NatDigits(n \div 10), DigitChars[(n % 10) + 1])

RECURSIVE Strip25(_)
Strip25(d) ==
    IF d % 2 = 0 THEN Strip25(d \div 2)
    ELSE IF d % 5 = 0 THEN Strip25(d \div 5)
    ELSE d

\* the digits of r/d (r < d) after the decimal point, all of them
RECURSIVE FracDigits(_, _)
FracDigits(r, d) ==
    IF r = 0 THEN <<>>
    ELSE <<(r * 10) \div d>> \o FracDigits((r * 10) % d, d)

\* the first k digits of r/d (r < d) after the decimal point
RECURSIVE FracDigitsN(_, _, _)
FracDigitsN(r, d, k) ==
    IF k = 0 THEN <<>>
    ELSE <<(r * 10) \div d>> \o FracDigitsN((r * 10) % d, d, k - 1)

\* the zeros between the decimal point and the first significant digit of r/d
RECURSIVE LeadZeros(_, _)
LeadZeros(r, d) ==
    IF r = 0 \/ r * 10 >= d THEN 0 ELSE 1 + LeadZeros(r * 10, d)

DigitsToChars(ds) == [i \in 1..Len(ds) |-> DigitChars[ds[i] + 1]]

RECURSIVE StripZeros(_)
StripZeros(ds) ==
    IF ds # <<>> /\ ds[Len(ds)] = 0 THEN StripZeros(SubSeq(ds, 1, Len(ds) - 1))
    ELSE ds

\* the digit string ds plus one in its last place
RECURSIVE IncDigits(_)
IncDigits(ds) ==
    IF ds = <<>> THEN <<1>>
    ELSE IF ds[Len(ds)] < 9 THEN [ds EXCEPT ![Len(ds)] = @ + 1]
    ELSE Append(IncDigits(SubSeq(ds, 1, Len(ds) - 1)), 0)

\* whether Number::toString of v is represented: v is the correctly rounded
\* double of a decimal short enough to be its own shortest form
CanString(v) ==
    \/ v.k \in {"nan", "inf", "ninf", "negzero", "str", "regex", "undef"}
    \/ v.k = "num" /\ v.e <= 1 /\ Strip25(v.d) = 1

\* the part of a decimal text after its integer digits
Fraction(frac) == IF frac = <<>> THEN <<>> ELSE <<".">> \o DigitsToChars(frac)

\* String(v)
StringOf(v) ==
    CASE v.k = "nan" -> NaNStr
      [] v.k = "inf" -> InfinityStr
      [] v.k = "ninf" -> <<"-">> \o InfinityStr
      [] v.k = "negzero" -> <<"0">>
      [] v.k = "undef" -> UndefinedStr
      [] v.k = "str" -> v.s
      [] v.k = "regex" -> <<"/">> \o v.s \o <<"/">>
      [] v.k = "num" ->
           (IF v.n < 0 THEN <<"-">> ELSE <<>>)
           \o NatDigits(Abs(v.n) \div v.d)
           \o Fraction(FracDigits(Abs(v.n) % v.d, v.d))

\* the digits of the integer ip, none for 0
IntDigits(ip) ==
    IF ip = 0 THEN <<>> ELSE [i \in 1..Len(NatDigits(ip)) |-> DigitVal(NatDigits(ip)[i])]

\* the text of the digits ds, the last nf of them after the decimal point
PrecisionText(v, nf, ds) ==
    (IF v.n < 0 THEN <<"-">> ELSE <<>>)
    \o DigitsToChars(IF Len(ds) = nf THEN <<0>> ELSE SubSeq(ds, 1, Len(ds) - nf))
    \o Fraction(StripZeros(SubSeq(ds, Len(ds) - nf + 1, Len(ds))))

\* id: the integer digits; fd: the first nf + 1 fraction digits, the last of
\* which rounds half up
PrecisionRounded(v, nf, id, fd) ==
    PrecisionText(v, nf, IF fd[nf + 1] >= 5 THEN IncDigits(id \o SubSeq(fd, 1, nf))
                         ELSE id \o SubSeq(fd, 1, nf))

\* nf: the fraction digits that twelve significant digits leave
PrecisionDigits(v, id, r, nf) ==
    PrecisionRounded(v, nf, id, FracDigitsN(r, v.d, nf + 1))

PrecisionOf(v, id, r) ==
    PrecisionDigits(v, id, r, IF id = <<>> THEN LeadZeros(r, v.d) + 12 ELSE 12 - Len(id))

\* parseFloat(x.toPrecision(12)).toString() for a finite x that is no integer:
\* twelve significant digits, the thirteenth rounding half up, zeros dropped
ToPrecision12(v) == PrecisionOf(v, IntDigits(Abs(v.n) \div v.d), Abs(v.n) % v.d)

\* Number.isInteger(v)
IsInteger(v) == v.k = "negzero" \/ (v.k = "num" /\ v.d = 1)


-----------------------------------------------------------------------------
(* The engine's reading of the source text handed to new Function *)

Tok(t, c, v) == [t |-> t, c |-> c, v |-> v]
OpTok(c) == Tok("op", c, UndefV)
ErrTok == Tok("err", "", UndefV)

\* the first position >= i of s that holds no digit
RECURSIVE DigitsEnd(_, _)
DigitsEnd(s, i) ==
    IF i <= Len(s) /\ IsDigit(s[i]) THEN DigitsEnd(s, i + 1) ELSE i

\* the value of the digits ds in the given base, saturating at 100000000
RECURSIVE DigitsVal(_, _)
DigitsVal(ds, base) ==
    IF ds = <<>> THEN 0
    ELSE LET hi == DigitsVal(SubSeq(ds, 1, Len(ds) - 1), base)
             x == hi * base + DigitVal(ds[Len(ds)])
         IN  IF x > 100000000 THEN 100000000 ELSE x

RECURSIVE StripZeroChars(_)
StripZeroChars(ds) ==
    IF ds # <<>> /\ ds[Len(ds)] = "0" THEN StripZeroChars(SubSeq(ds, 1, Len(ds) - 1))
    ELSE ds

RECURSIVE Pow10(_)
Pow10(k) == IF k = 0 THEN 1 ELSE 10 * Pow10(k - 1)

RECURSIVE Pow2(_)
Pow2(k) == IF k = 0 THEN 1 ELSE 2 * Pow2(k - 1)

\* the double nearest to n/d: one rounding unless n/d is a double itself
Nearest(n, d) == Num(n, d, IF IsPow2(d \div GCD(n, d)) THEN 0 ELSE 1, FALSE)

\* ip: the integer part; fs: the fraction digits without their last zeros
Decimal(ip, fs) ==
    IF Len(fs) > 9 \/ ip > MaxMag THEN OorV
    ELSE IF ip * Pow2(Len(fs)) > MaxMag THEN OorV
    ELSE Nearest(ip * Pow10(Len(fs)) + DigitsVal(fs, 10), Pow10(Len(fs)))

\* the number a decimal literal with integer digits id and fraction digits fd
\* denotes; its lowest-terms denominator is at least 2^f for f fraction digits
DecimalValue(id, fd) == Decimal(DigitsVal(id, 10), StripZeroChars(fd))

\* a numeric literal starting at s[i]: [v |-> its value, j |-> the position after it]
NumericLiteral(s, i) ==
    IF s[i] = "."
    THEN LET j == DigitsEnd(s, i + 1)
         IN  [v |-> DecimalValue(<<>>, SubSeq(s, i + 1, j - 1)), j |-> j]
    ELSE LET j == DigitsEnd(s, i)
             id == SubSeq(s, i, j - 1)
         IN  IF Len(id) > 1 /\ id[1] = "0" /\ \A k \in 1..Len(id) : IsOctalDigit(id[k])
             THEN \* a legacy octal literal: new Function code is not strict
                  LET o == DigitsVal(id, 8)
                  IN  [v |-> IF o > MaxMag THEN OorV ELSE Num(o, 1, 0, FALSE), j |-> j]
             ELSE IF j <= Len(s) /\ s[j] = "."
             THEN LET k == DigitsEnd(s, j + 1)
                  IN  [v |-> DecimalValue(id, SubSeq(s, j + 1, k - 1)), j |-> k]
             ELSE [v |-> DecimalValue(id, <<>>), j |-> j]

\* the first position >= i where s holds c, or 0
RECURSIVE Find(_, _, _)
Find(s, c, i) ==
    IF i > Len(s) THEN 0 ELSE IF s[i] = c THEN i ELSE Find(s, c, i + 1)

\* the position of the "/" that closes a block comment whose text starts at i, or 0
RECURSIVE CommentEnd(_, _)
CommentEnd(s, i) ==
    IF i + 1 > Len(s) THEN 0
    ELSE IF s[i] = "*" /\ s[i + 1] = "/" THEN i + 1
    ELSE CommentEnd(s, i + 1)

\* whether the pattern body b is a regular expression: its parentheses match
\* and each quantifier follows an atom (depth: the groups open so far)
RECURSIVE PatternOk(_, _, _)
PatternOk(b, i, depth) ==
    IF i > Len(b) THEN depth = 0
    ELSE IF b[i] = "(" THEN PatternOk(b, i + 1, depth + 1)
    ELSE IF b[i] = ")" THEN depth > 0 /\ PatternOk(b, i + 1, depth - 1)
    ELSE IF b[i] \in {"*", "+"}
         THEN i > 1 /\ b[i - 1] \notin {"(", "*", "+"} /\ PatternOk(b, i + 1, depth)
    ELSE PatternOk(b, i + 1, depth)

\* the tokens of s from position i on; operand: the token before ends an
\* operand, so that a "/" divides rather than opens a regular expression.
\* An ErrTok ends the sequence where the text is no token.
RECURSIVE Lex(_, _, _)
RECURSIVE LexNumber(_, _)

\* the token of the numeric literal lit, and the tokens after it
LexNumber(s, lit) == <<Tok("num", "", lit.v)>> \o Lex(s, lit.j, TRUE)

Lex(s, i, operand) ==
    IF i > Len(s) THEN <<>>
    ELSE LET c == s[i]
             nx == IF i < Len(s) THEN s[i + 1] ELSE ""
         IN  IF IsSpace(c) THEN Lex(s, i + 1, operand)
             ELSE IF IsDigit(c) \/ (c = "." /\ IsDigit(nx))
             THEN LexNumber(s, NumericLiteral(s, i))
             ELSE IF c = "/" /\ nx = "/" THEN <<>>
             ELSE IF c = "/" /\ nx = "*"
             THEN LET j == CommentEnd(s, i + 2)
                  IN  IF j = 0 THEN <<ErrTok>> ELSE Lex(s, j + 1, operand)
             ELSE IF c = "/" /\ operand THEN <<OpTok("/")>> \o Lex(s, i + 1, FALSE)
             ELSE IF c = "/"
             THEN LET j == Find(s, "/", i + 1)
                      body == SubSeq(s, i + 1, j - 1)
                  IN  IF j = 0 THEN <<ErrTok>>
                      ELSE IF ~PatternOk(body, 1, 0) THEN <<ErrTok>>
                      ELSE IF j < Len(s) /\ IsDigit(s[j + 1]) THEN <<ErrTok>>
                      ELSE <<Tok("regex", "", RegexV(body))>> \o Lex(s, j + 1, TRUE)
             ELSE IF c = "*" /\ nx = "*" THEN <<OpTok("**")>> \o Lex(s, i + 2, FALSE)
             ELSE IF c \in {"+", "-"} /\ nx = c THEN <<ErrTok>>
             ELSE IF c \in {"+", "-", "*", "%", "("} THEN <<OpTok(c)>> \o Lex(s, i + 1, FALSE)
             ELSE IF c = ")" THEN <<OpTok(c)>> \o Lex(s, i + 1, TRUE)
             ELSE <<ErrTok>>

IsOp(toks, i, ops) == i <= Len(toks) /\ toks[i].t = "op" /\ toks[i].c \in ops

\* x + y: concatenation as soon as one side is a RegExp or a string
Plus(x, y) ==
    IF x.k \in {"str", "regex"} \/ y.k \in {"str", "regex"}
    THEN (IF x.k = "oor" \/ y.k = "oor" \/ ~CanString(x) \/ ~CanString(y) THEN OorV
          ELSE StrV(StringOf(x) \o StringOf(y)))
    ELSE AddNum(x, y)

Binary(op, x, y) ==
    CASE op = "+" -> Plus(x, y)
      [] op = "-" -> AddNum(ToNumber(x), Neg(ToNumber(y)))
      [] op = "*" -> MulNum(ToNumber(x), ToNumber(y))
      [] op = "/" -> DivNum(ToNumber(x), ToNumber(y))
      [] op = "%" -> ModNum(ToNumber(x), ToNumber(y))
      [] op = "**" -> PowNum(ToNumber(x), ToNumber(y))

Unary(op, x) == IF op = "-" THEN Neg(ToNumber(x)) ELSE ToNumber(x)

\* the expression a text parses to: a literal, a unary or a binary operation,
\* or none (the text is no expression, or it calls what is no function)
Node(t, op, l, r, v) == [t |-> t, op |-> op, l |-> l, r |-> r, v |-> v]
LiteralNode(v) == Node("literal", "", <<>>, <<>>, v)
UnaryNode(op, x) == Node("unary", op, x, <<>>, UndefV)
BinaryNode(op, x, y) == Node("binary", op, x, y, UndefV)
NoNode == Node("none", "", <<>>, <<>>, UndefV)

\* a parse: the expression e read, and the position i of the token after it
Res(e, i) == [e |-> e, i |-> i]
Failed(r) == r.e.t = "none"

\* the operation op on the operands parsed as l and r
Joined(op, l, r) == IF Failed(r) THEN r ELSE Res(BinaryNode(op, l.e, r.e), r.i)

RECURSIVE ParseAdditive(_, _)
RECURSIVE AdditiveRest(_, _)
RECURSIVE ParseMultiplicative(_, _)
RECURSIVE MultiplicativeRest(_, _)
RECURSIVE ParseExponentiation(_, _)
RECURSIVE Raised(_, _, _)
RECURSIVE ParseUnary(_, _)
RECURSIVE ParseCall(_, _)
RECURSIVE ParsePrimary(_, _)

\* a parenthesized expression r, opened at token i
Closed(toks, i, r) ==
    IF ~Failed(r) /\ IsOp(toks, r.i, {")"}) THEN Res(r.e, r.i + 1) ELSE Res(NoNode, i)

\* PrimaryExpression: a literal or a parenthesized expression
ParsePrimary(toks, i) ==
    IF i > Len(toks) THEN Res(NoNode, i)
    ELSE IF toks[i].t \in {"num", "regex"} THEN Res(LiteralNode(toks[i].v), i + 1)
    ELSE IF IsOp(toks, i, {"("}) THEN Closed(toks, i, ParseAdditive(toks, i + 1))
    ELSE Res(NoNode, i)

\* no value here is callable, so a call is a TypeError when its arguments
\* parse and a SyntaxError when they do not
Called(toks, i, p) ==
    IF ~Failed(p) /\ IsOp(toks, p.i, {"("}) THEN Res(NoNode, i) ELSE p

\* CallExpression
ParseCall(toks, i) == Called(toks, i, ParsePrimary(toks, i))

\* the unary operation op on the operand parsed as r
Signed(op, r) == IF Failed(r) THEN r ELSE Res(UnaryNode(op, r.e), r.i)

\* UnaryExpression
ParseUnary(toks, i) ==
    IF IsOp(toks, i, {"+", "-"}) THEN Signed(toks[i].c, ParseUnary(toks, i + 1))
    ELSE ParseCall(toks, i)

\* the base b, read from token i on, and its exponent if one follows: the
\* operator is right-associative, and its base may not be a unary expression
Raised(toks, i, b) ==
    IF Failed(b) \/ ~IsOp(toks, b.i, {"**"}) THEN b
    ELSE IF IsOp(toks, i, {"+", "-"}) THEN Res(NoNode, i)
    ELSE Joined("**", b, ParseExponentiation(toks, b.i + 1))

\* ExponentiationExpression
ParseExponentiation(toks, i) == Raised(toks, i, ParseUnary(toks, i))

MultiplicativeRest(toks, l) ==
    IF Failed(l) \/ ~IsOp(toks, l.i, {"*", "/", "%"}) THEN l
    ELSE MultiplicativeRest(toks, Joined(toks[l.i].c, l, ParseExponentiation(toks, l.i + 1)))

\* MultiplicativeExpression
ParseMultiplicative(toks, i) == MultiplicativeRest(toks, ParseExponentiation(toks, i))

AdditiveRest(toks, l) ==
    IF Failed(l) \/ ~IsOp(toks, l.i, {"+", "-"}) THEN l
    ELSE AdditiveRest(toks, Joined(toks[l.i].c, l, ParseMultiplicative(toks, l.i + 1)))

\* AdditiveExpression
ParseAdditive(toks, i) == AdditiveRest(toks, ParseMultiplicative(toks, i))

\* the value of the expression e
RECURSIVE Evaluate(_)
Evaluate(e) ==
    CASE e.t = "literal" -> e.v
      [] e.t = "unary" -> Unary(e.op, Evaluate(e.l))
      [] e.t = "binary" -> Binary(e.op, Evaluate(e.l), Evaluate(e.r))

\* the function returns the value of the expression r if r is all of toks
Returned(toks, r) ==
    IF Failed(r) \/ r.i # Len(toks) + 1 THEN ThrowV ELSE Evaluate(r.e)

Compiled(toks) ==
    IF \E i \in 1..Len(toks) : toks[i].t = "err" THEN ThrowV
    ELSE IF toks = <<>> THEN UndefV
    ELSE Returned(toks, ParseAdditive(toks, 1))

\* new Function('return ' + expr)(): the value of expr, undefined when expr
\* holds only comments, "throw" when it is no expression or a call fails
NewFunction(expr) == Compiled(Lex(expr, 1, FALSE))

-----------------------------------------------------------------------------
(* String helpers of the handlers *)

\* String.prototype.trim
RECURSIVE Trim(_)
Trim(s) ==
    IF s = <<>> THEN s
    ELSE IF IsSpace(s[1]) THEN Trim(Tail(s))
    ELSE IF IsSpace(s[Len(s)]) THEN Trim(SubSeq(s, 1, Len(s) - 1))
    ELSE s

\* whether pat occurs in s at position i
MatchAt(s, pat, i) ==
    i + Len(pat) - 1 <= Len(s) /\ SubSeq(s, i, i + Len(pat) - 1) = pat

\* s.replace(/pat/g, rep) for a literal pattern
RECURSIVE ReplaceAll(_, _, _)
ReplaceAll(s, pat, rep) ==
    IF s = <<>> THEN s
    ELSE IF MatchAt(s, pat, 1)
         THEN rep \o ReplaceAll(SubSeq(s, Len(pat) + 1, Len(s)), pat, rep)
    ELSE <<s[1]>> \o ReplaceAll(Tail(s), pat, rep)

\* the decimal at the start of u whose integer digits end before position j
DecimalPrefix(u, j) ==
    LET k == IF j <= Len(u) /\ u[j] = "." THEN DigitsEnd(u, j + 1) ELSE j
    IN  IF j = 1 /\ k <= 2 THEN NaNV
        ELSE DecimalValue(SubSeq(u, 1, j - 1), SubSeq(u, j + 1, k - 1))

\* parseFloat of a text without sign
UnsignedFloat(u) ==
    IF MatchAt(u, InfinityStr, 1) THEN InfV
    ELSE IF u = <<>> THEN NaNV
    ELSE DecimalPrefix(u, DigitsEnd(u, 1))

\* parseFloat of a text without white space around it
SignedFloat(t) ==
    IF t # <<>> /\ t[1] = "-" THEN Neg(UnsignedFloat(Tail(t)))
    ELSE UnsignedFloat(IF t # <<>> /\ t[1] = "+" THEN Tail(t) ELSE t)

\* parseFloat of a string: the longest decimal prefix, NaN without one
ParseFloat(s) == SignedFloat(Trim(s))

-----------------------------------------------------------------------------
(* The calculator *)

Plain == "script.js"
Rich == "part_000"
Variants == {Plain, Rich}

\* the characters the keydown handler of variant v passes to append
\* (script.js 89 and 114-116, part_000 276 and 301-303)
IsKey(v, c) ==
    IsDigit(c) \/ c \in {"+", "-", "*", "/", "(", ")", ".", "%"} \/ (v = Rich /\ c = "^")

\* the tokens the model presses, one after the other from the empty buffer
Tokens == {"0", "1", "5", "+", "/", "."}
\* the tokens of the buffers the model evaluates in one step: keys, and what
\* a button's data-value may hold besides
WideTokens == {"0", "1", "2", "5", "+", "-", "*", "/", "(", ")", ".", "%", "^", "a", " "}

Functions == {"sqrt", "square", "reciprocal", "negate"}

\* the glyphs of the two replace calls, as the source file spells them
TimesGlyph == <<"U+00EF", "U+00BF", "U+00BD", "U+00EF", "U+00BF", "U+00BD">>
DivideGlyph == <<"U+00C3", "U+00B7">>

preprocessExpression(expr) ==
    IF expr = <<>> THEN <<>>
    ELSE ReplaceAll(
           ReplaceAll(
             ReplaceAll(
               ReplaceAll(expr, TimesGlyph, <<"*">>),
               DivideGlyph, <<"/">>),
             <<"^">>, <<"*", "*">>),
           <<"%">>, <<"/", "1", "0", "0">>)

\* /^[0-9+\-*/().%\s]+$/ of the plain variant
sanitizeExpressionPlain(expr) ==
    /\ expr # <<>>
    /\ \A i \in 1..Len(expr) :
          IsDigit(expr[i]) \/ IsSpace(expr[i])
          \/ expr[i] \in {"+", "-", "*", "/", "(", ")", ".", "%"}

\* a faulty sanitizeExpression: the pattern without its anchors, which one
\* allowed character satisfies
sanitizeUnanchored(expr) ==
    \E i \in 1..Len(expr) :
        IsDigit(expr[i]) \/ IsSpace(expr[i])
        \/ expr[i] \in {"+", "-", "*", "/", "(", ")", "."}

\* /^[0-9+\-*/().\s]+$/ of the richer variant
sanitizeExpression(expr) ==
    /\ expr # <<>>
    /\ \A i \in 1..Len(expr) :
          IsDigit(expr[i]) \/ IsSpace(expr[i])
          \/ expr[i] \in {"+", "-", "*", "/", "(", ")", "."}

\* a faulty updateDisplay: the buffer as it is, the empty one too
showBuffer(buf) == buf

updateDisplay(buf) == IF buf = <<>> THEN <<"0">> ELSE buf

\* a faulty append: no leading zero is replaced
appendConcat(buf, char) == buf \o <<char>>

\* a faulty append: only a digit other than 0 replaces the buffer "0"
appendKeepZero(buf, char) ==
    IF buf = <<"0">> /\ IsDigit(char) /\ char # "0" THEN <<char>> ELSE buf \o <<char>>

\* a faulty append: the text of a missing argument is appended
appendUndefined(buf, char) == buf \o UndefinedStr

append(buf, char) ==
    IF buf = <<"0">> /\ IsDigit(char) THEN <<char>> ELSE buf \o <<char>>

clearAll == <<>>

\* a faulty del: the first character is removed
delFirst(buf) == IF buf = <<>> THEN buf ELSE Tail(buf)

del(buf) == SubSeq(buf, 1, Len(buf) - 1)

\* the buffer text the handlers write for a result
FormatResult(result) ==
    IF result.k = "num" /\ ~IsInteger(result)
    THEN ToPrecision12(result)
    ELSE StringOf(result)

\* what a handler leaves: the buffer, the display, and the branch it took:
\*   "empty"    returned at the emptiness check
\*   "invalid"  returned at the sanitizeExpression check, before new Function
\*   "threw"    new Function was reached and threw
\*   "result"   new Function was reached and the result was written
\*   "zero"     the same, reciprocal having found value === 0
\*   "default"  new Function was reached and the switch returned
\*   "oor"      new Function was reached with a result outside the model
Outcome(buf, disp, path) == [buffer |-> buf, display |-> disp, path |-> path]

\* buffer = text; updateDisplay()
Shown(text, path) == Outcome(text, updateDisplay(text), path)

\* the text evaluateExpression validates and evaluates
Prepared(v, buf) == IF v = Rich THEN preprocessExpression(Trim(buf)) ELSE Trim(buf)

Sanitized(v, expr) ==
    IF v = Rich THEN sanitizeExpression(expr) ELSE sanitizeExpressionPlain(expr)

\* the try block after its evaluation gave result
Written(buf, disp, result, path) ==
    IF result.k = "throw" THEN Shown(ErrorStr, "threw")
    ELSE IF result.k = "oor" THEN Outcome(buf, disp, "oor")
    ELSE Shown(FormatResult(result), path)

\* the handler from its sanitizeExpression check on, pre being the text checked
Validated(v, buf, disp, pre) ==
    IF ~Sanitized(v, pre) THEN Shown(ErrorStr, "invalid")
    ELSE Written(buf, disp, NewFunction(pre), "result")

\* a faulty evaluateExpression: no return for an empty buffer
evaluateUnchecked(v, buf, disp) == Validated(v, buf, disp, Prepared(v, buf))

evaluateExpression(v, buf, disp) ==
    IF Trim(buf) = <<>> THEN Outcome(buf, disp, "empty")
    ELSE Validated(v, buf, disp, Prepared(v, buf))

\* a faulty switch: the reciprocal without its test for zero
FunctionValueUnguarded(fn, value) ==
    CASE fn = "sqrt" -> SqrtNum(ToNumber(value))
      [] fn = "square" -> MulNum(ToNumber(value), ToNumber(value))
      [] fn = "reciprocal" -> DivNum(Val("num", 1, 1, 0, <<>>), ToNumber(value))
      [] fn = "negate" -> Neg(ToNumber(value))

\* the switch of applyFunction
FunctionValue(fn, value) ==
    CASE fn = "sqrt" -> SqrtNum(ToNumber(value))
      [] fn = "square" -> MulNum(ToNumber(value), ToNumber(value))
      [] fn = "reciprocal" ->
           IF IsZero(value) THEN NaNV
           ELSE DivNum(Val("num", 1, 1, 0, <<>>), ToNumber(value))
      [] fn = "negate" -> Neg(ToNumber(value))

\* the try block of applyFunction after its evaluation gave value
Switched(fn, buf, disp, value) ==
    IF value.k = "throw" THEN Shown(ErrorStr, "threw")
    ELSE IF fn \notin Functions THEN Outcome(buf, disp, "default")
    ELSE IF value.k = "oor" THEN Outcome(buf, disp, "oor")
    ELSE Written(buf, disp, FunctionValue(fn, value),
                 IF fn = "reciprocal" /\ IsZero(value) THEN "zero" ELSE "result")

\* applyFunction from its sanitizeExpression check on
Applied(fn, buf, disp, pre) ==
    IF ~sanitizeExpression(pre) THEN Shown(ErrorStr, "invalid")
    ELSE Switched(fn, buf, disp, NewFunction(pre))

applyFunction(fn, buf, disp) ==
    IF Trim(buf) = <<>> THEN Outcome(buf, disp, "empty")
    ELSE Applied(fn, buf, disp, preprocessExpression(Trim(buf)))

-----------------------------------------------------------------------------
(* The memory register: localStorage[MEMORY_KEY], unset or a string *)

Unset == [set |-> FALSE, raw |-> <<>>]
Stored(raw) == [set |-> TRUE, raw |-> raw]

\* Number.isFinite(n) ? n : 0
FiniteOrZero(n) == IF IsFinite(n) THEN n ELSE ZeroV

\* a faulty memoryGet: the default whatever the register holds
memoryGetDefault(mem) == ZeroV

memoryGet(mem) == IF ~mem.set THEN ZeroV ELSE FiniteOrZero(ParseFloat(mem.raw))

memorySet(value) == Stored(StringOf(value))

\* null is the value "null" here
NullV == Val("null", 0, 1, 0, <<>>)

\* typeof val === 'number' ? val : parseFloat(val), and null for a throw
NumberOf(val) ==
    IF val.k = "throw" THEN NullV
    ELSE IF val.k = "oor" \/ IsNumber(val) THEN val
    ELSE IF CanString(val) THEN ParseFloat(StringOf(val))
    ELSE OorV

\* evaluateForMemory from its sanitizeExpression check on
MemoryValue(pre) == IF ~sanitizeExpression(pre) THEN NullV ELSE NumberOf(NewFunction(pre))

evaluateForMemory(buf) ==
    IF Trim(buf) = <<>> THEN NullV ELSE MemoryValue(preprocessExpression(Trim(buf)))

\* the values the model lets the register take: NaN, and the numbers within
\* MaxMem
InMemRange(v) ==
    \/ v.k = "nan"
    \/ v.k = "num" /\ CanString(v) /\ Abs(v.n) <= MaxMem /\ v.d <= MaxMem

-----------------------------------------------------------------------------
(* The theme and the guarded storage accesses *)

Animated == "part_001"
Scripts == {Plain, Rich, Animated}

Page(theme, stored, prefersDark, failed, escaped) ==
    [theme |-> theme, stored |-> stored, prefersDark |-> prefersDark,
     failed |-> failed, escaped |-> escaped]

\* the page once the theme is applied: nothing stored, a light system scheme
SettledPage == Page("light", "none", FALSE, "none", FALSE)

\* the theme code of script.js reads and writes localStorage outside any try
Guarded(v) == v # Plain

\* prefersDark ? 'dark' : 'light'
systemTheme(prefersDark) == IF prefersDark THEN "dark" ELSE "light"

\* getPreferredTheme where the exception of getItem, if any, is caught
getPreferredTheme(stored, prefersDark, throws) ==
    IF ~throws /\ stored \in {"light", "dark"} THEN stored ELSE systemTheme(prefersDark)

\* current === 'dark' ? 'light' : 'dark'
nextTheme(current) == IF current = "dark" THEN "light" ELSE "dark"

\* which of the read and the write of a handler threw
Failure(read, write) ==
    IF read /\ write THEN "both"
    ELSE IF read THEN "read"
    ELSE IF write THEN "write"
    ELSE "none"

\* memoryGet, memorySet and memoryClear with a storage access that may throw
memoryGetGuarded(mem, throws) == IF throws THEN ZeroV ELSE memoryGet(mem)

memorySetGuarded(mem, value, throws) == IF throws THEN mem ELSE memorySet(value)

memoryClearGuarded(mem, throws) == IF throws THEN mem ELSE Unset

-----------------------------------------------------------------------------
(* The state machine: one action per handler *)

Last(op, arg, path) == [op |-> op, arg |-> arg, path |-> path]

Init ==
    /\ variant \in Variants
    /\ buffer = clearAll
    /\ display = updateDisplay(clearAll)
    /\ memory = Unset
    /\ last = Last("init", "", "")
    /\ page = SettledPage

Press(char) ==
    /\ Len(buffer) < MaxLen
    /\ buffer' = append(buffer, char)
    /\ display' = updateDisplay(buffer')
    /\ last' = Last("append", char,
                    IF buffer = <<"0">> /\ IsDigit(char) THEN "replace" ELSE "concat")
    /\ UNCHANGED <<variant, memory, page>>

ClearAll ==
    /\ buffer' = clearAll
    /\ display' = updateDisplay(buffer')
    /\ last' = Last("clear", "", "")
    /\ UNCHANGED <<variant, memory, page>>

Del ==
    /\ buffer' = del(buffer)
    /\ display' = updateDisplay(buffer')
    /\ last' = Last("delete", "", "")
    /\ UNCHANGED <<variant, memory, page>>

Equals ==
    \E o \in {evaluateExpression(variant, buffer, display)} :
        /\ o.path # "oor"
        /\ Len(o.buffer) <= MaxOut \/ o.path = "empty"
        /\ buffer' = o.buffer
        /\ display' = o.display
        /\ last' = Last("equals", "", o.path)
        /\ UNCHANGED <<variant, memory, page>>

Func(fn) ==
    \E o \in {applyFunction(fn, buffer, display)} :
        /\ variant = Rich
        /\ o.path # "oor"
        /\ Len(o.buffer) <= MaxOut \/ o.path = "empty"
        /\ buffer' = o.buffer
        /\ display' = o.display
        /\ last' = Last("func", fn, o.path)
        /\ UNCHANGED <<variant, memory, page>>

MemClear ==
    /\ variant = Rich
    /\ memory' = Unset
    /\ UNCHANGED <<variant, buffer, display, last, page>>

MemRecall ==
    /\ variant = Rich
    /\ buffer' = StringOf(memoryGet(memory))
    /\ display' = updateDisplay(buffer')
    /\ last' = Last("mem-recall", "", "")
    /\ UNCHANGED <<variant, memory, page>>

\* a faulty memoryAdd / memorySub: null is counted as 0 and stored
memoryAccumulateNull(mem, sign, val, sum) ==
    memorySet(IF val.k = "null" THEN memoryGet(mem) ELSE sum)

\* memoryAdd (sign = 1) and memorySub (sign = -1): the register they leave
memoryAccumulate(mem, sign, val, sum) ==
    IF val.k = "null" THEN mem ELSE memorySet(sum)

MemAccumulate(sign) ==
    \E val \in {evaluateForMemory(buffer)} :
      \E sum \in {AddNum(memoryGet(memory), IF sign = 1 THEN val ELSE Neg(val))} :
        /\ variant = Rich
        /\ val.k # "null" => InMemRange(sum)
        /\ memory' = memoryAccumulate(memory, sign, val, sum)
        /\ UNCHANGED <<variant, buffer, display, last, page>>

MemAdd == /\ MemAccumulate(1)

MemSub == /\ MemAccumulate(-1)

Next ==
    \/ \E char \in Tokens : Press(char)
    \/ ClearAll
    \/ Del
    \/ Equals
    \/ \E fn \in Functions : Func(fn)
    \/ MemClear
    \/ MemRecall
    \/ MemAdd
    \/ MemSub

Spec == Init /\ [][Next]_vars

(***************************************************************************)
(* The evaluating handlers as functions of the buffer: every buffer that   *)
(* append builds from the empty one out of at most MaxLen wide tokens,     *)
(* then one evaluating handler.                                            *)
(***************************************************************************)
RECURSIVE Typed(_)
Typed(n) ==
    IF n = 0 THEN {clearAll}
    ELSE LET shorter == Typed(n - 1)
         IN  shorter \cup {append(b, c) : b \in shorter, c \in WideTokens}

EvalInit ==
    /\ variant \in Variants
    /\ buffer \in Typed(MaxLen)
    /\ display = updateDisplay(buffer)
    /\ memory = Unset
    /\ last = Last("typed", "", "")
    /\ page = SettledPage

EvalEquals == last.op = "typed" /\ Equals

EvalFunc(fn) == last.op = "typed" /\ Func(fn)

EvalNext ==
    \/ EvalEquals
    \/ \E fn \in Functions : EvalFunc(fn)

EvalSpec == EvalInit /\ [][EvalNext]_vars

(***************************************************************************)
(* The register handlers as functions of the buffer and of the persisted   *)
(* register: every buffer of at most MaxLen wide tokens and a register     *)
(* left by an earlier session, then memoryAdd, memorySub or memoryClear,   *)
(* then memoryRecall.  Here every handler records itself in last.          *)
(***************************************************************************)
MaxReg == 1000

\* what an earlier session may have left under MEMORY_KEY
Registers ==
    {Unset, Stored(<<"0">>), Stored(<<"2">>), Stored(<<"-", "0", ".", "5">>)}

\* the values this specification lets the register take
InRegRange(v) ==
    \/ v.k \in {"nan", "inf", "ninf", "negzero"}
    \/ v.k = "num" /\ CanString(v) /\ Abs(v.n) <= MaxReg /\ v.d <= MaxReg

MemInit ==
    /\ variant = Rich
    /\ buffer \in Typed(MaxLen)
    /\ display = updateDisplay(buffer)
    /\ memory \in Registers
    /\ last = Last("typed", "", "")
    /\ page = SettledPage

\* memoryAdd and memorySub; last.arg tells whether the register read as 0
\* before, last.path whether evaluateForMemory gave null
RegAccumulate(sign, op) ==
    \E val \in {evaluateForMemory(buffer)} :
      \E was \in {memoryGet(memory)} :
        \E sum \in {AddNum(was, IF sign = 1 THEN val ELSE Neg(val))} :
          /\ last.op = "typed"
          /\ val.k # "null" => InRegRange(sum)
          /\ memory' = memoryAccumulate(memory, sign, val, sum)
          /\ last' = Last(op, IF IsZero(was) THEN "default" ELSE "set",
                          IF val.k = "null" THEN "null" ELSE "stored")
          /\ UNCHANGED <<variant, buffer, display, page>>

RegAdd == /\ RegAccumulate(1, "mem-add")

RegSub == /\ RegAccumulate(-1, "mem-sub")

RegClear ==
    /\ last.op = "typed"
    /\ memory' = Unset
    /\ last' = Last("mem-clear", "", "")
    /\ UNCHANGED <<variant, buffer, display, page>>

\* memoryRecall; last.arg is the handler called before it
RegRecall ==
    /\ last.op # "mem-recall"
    /\ buffer' = StringOf(memoryGet(memory))
    /\ display' = updateDisplay(buffer')
    /\ last' = Last("mem-recall", last.op, "")
    /\ UNCHANGED <<variant, memory, page>>

MemNext ==
    \/ RegAdd
    \/ RegSub
    \/ RegClear
    \/ RegRecall

MemSpec == MemInit /\ [][MemNext]_vars

(***************************************************************************)
(* The handlers that touch localStorage, where each access may throw: the  *)
(* theme detection at startup and the theme toggle of the three files, and *)
(* the register handlers of part_000.  Every handler records itself in     *)
(* last.                                                                   *)
(***************************************************************************)
StoreInit ==
    /\ variant \in Scripts
    /\ buffer = clearAll
    /\ display = updateDisplay(clearAll)
    /\ memory \in (IF variant = Rich THEN Registers ELSE {Unset})
    /\ last = Last("init", "", "")
    /\ page \in {Page("none", stored, prefersDark, "none", FALSE) :
                    stored \in {"none", "light", "dark"}, prefersDark \in BOOLEAN}

\* const initialTheme = getPreferredTheme(); applyTheme(initialTheme)
DetectTheme ==
    \E throws \in BOOLEAN :
        /\ page.theme = "none"
        /\ ~page.escaped
        /\ page' = IF throws /\ ~Guarded(variant)
                   THEN [page EXCEPT !.failed = "read", !.escaped = TRUE]
                   ELSE [page EXCEPT
                           !.theme = getPreferredTheme(page.stored, page.prefersDark, throws),
                           !.failed = Failure(throws, FALSE)]
        /\ last' = Last("theme-detect", "", "")
        /\ UNCHANGED <<variant, buffer, display, memory>>

\* the click handler of the theme toggle: applyTheme(next), then setItem
ToggleTheme ==
    \E throws \in BOOLEAN :
        /\ page.theme # "none"
        /\ page' = [page EXCEPT
                      !.theme = nextTheme(page.theme),
                      !.stored = IF throws THEN @ ELSE nextTheme(page.theme),
                      !.failed = Failure(FALSE, throws),
                      !.escaped = throws /\ ~Guarded(variant)]
        /\ last' = Last("theme-toggle", "", "")
        /\ UNCHANGED <<variant, buffer, display, memory>>

\* memoryAdd and memorySub: no access where evaluateForMemory gives null
StoreAccumulate(sign, op) ==
    \E read, write \in BOOLEAN :
      \E val \in {evaluateForMemory(buffer)} :
        \E sum \in {AddNum(memoryGetGuarded(memory, read),
                           IF sign = 1 THEN val ELSE Neg(val))} :
          /\ variant = Rich
          /\ page.theme # "none"
          /\ val.k = "null" => ~read /\ ~write
          /\ val.k # "null" => InMemRange(sum)
          /\ memory' = IF val.k = "null" THEN memory
                       ELSE memorySetGuarded(memory, sum, write)
          /\ page' = [page EXCEPT !.failed = Failure(read, write), !.escaped = FALSE]
          /\ last' = Last(op, "", IF val.k = "null" THEN "null" ELSE "stored")
          /\ UNCHANGED <<variant, buffer, display>>

StoreAdd == /\ StoreAccumulate(1, "mem-add")

StoreSub == /\ StoreAccumulate(-1, "mem-sub")

StoreClear ==
    \E throws \in BOOLEAN :
        /\ variant = Rich
        /\ page.theme # "none"
        /\ memory' = memoryClearGuarded(memory, throws)
        /\ page' = [page EXCEPT !.failed = Failure(FALSE, throws), !.escaped = FALSE]
        /\ last' = Last("mem-clear", "", "")
        /\ UNCHANGED <<variant, buffer, display>>

StoreRecall ==
    \E throws \in BOOLEAN :
        /\ variant = Rich
        /\ page.theme # "none"
        /\ buffer' = StringOf(memoryGetGuarded(memory, throws))
        /\ display' = updateDisplay(buffer')
        /\ page' = [page EXCEPT !.failed = Failure(throws, FALSE), !.escaped = FALSE]
        /\ last' = Last("mem-recall", "", "")
        /\ UNCHANGED <<variant, memory>>

StoreNext ==
    \/ DetectTheme
    \/ ToggleTheme
    \/ StoreAdd
    \/ StoreSub
    \/ StoreClear
    \/ StoreRecall

StoreSpec == StoreInit /\ [][StoreNext]_vars

-----------------------------------------------------------------------------
(* Properties *)

\* the whitelist of variant v: digits, + - * / ( ) . and white space, and %
\* where the text is validated as typed
WhitelistChar(v, c) ==
    IsDigit(c) \/ IsSpace(c) \/ c \in {"+", "-", "*", "/", "(", ")", "."}
    \/ (v = Plain /\ c = "%")

OnlyWhitelist(v, text) == \A i \in 1..Len(text) : WhitelistChar(v, text[i])

\* the buffer holds accepted input characters only
OnlyKeys(v, buf) == \A i \in 1..Len(buf) : IsKey(v, buf[i])

\* the step is a call of the handler op: the handlers of the register buttons
\* other than recall write the register and leave last as it was
Ran(op) == last'.op = op /\ memory' = memory

\* the branches of a handler on which new Function was called
Evaluated(path) == path \in {"threw", "result", "zero", "default"}

\* C1: new Function is reached only with a text of whitelist characters: a
\* handler that evaluates called it on such a text, and evaluate() on a buffer
\* whose trimmed (and, in the richer variant, preprocessed) text is not empty
\* and holds any other character leaves buffer and display "Error" without
\* calling it.
C1_EvaluationGated ==
    [][(Ran("equals") \/ Ran("func")) =>
         /\ Evaluated(last'.path) => OnlyWhitelist(variant, Prepared(variant, buffer))
         /\ (/\ Ran("equals")
             /\ Trim(buffer) # <<>>
             /\ ~OnlyWhitelist(variant, Prepared(variant, buffer)))
            => (buffer' = ErrorStr /\ display' = ErrorStr /\ last'.path = "invalid")]_vars

\* evaluate() has rejected a text at the whitelist
C1_Rejected ==
    last.op = "equals" /\ last.path = "invalid" /\ buffer = ErrorStr /\ display = ErrorStr

\* C2: evaluate() on a buffer that passes the whitelist leaves the buffer
\* "Error" whenever the evaluation throws or gives a result that is undefined
\* or no number.
C2_FailureGivesError ==
    [][(/\ Ran("equals")
        /\ Evaluated(last'.path)
        /\ NewFunction(Prepared(variant, buffer)).k \in {"throw", "undef", "str", "regex"})
       => buffer' = ErrorStr]_vars

\* C3: append(token) on the buffer "0" with a digit gives that digit, and in
\* every other case the old buffer followed by the token.
C3_AppendReplacesOrConcatenates ==
    [][Ran("append") =>
         buffer' = IF buffer = <<"0">> /\ last'.arg \in {"0", "1", "2", "3", "4", "5", "6", "7", "8", "9"}
                   THEN <<last'.arg>>
                   ELSE buffer \o <<last'.arg>>]_vars

\* append('5') has replaced the buffer "0"
C3_ZeroReplaced ==
    last.op = "append" /\ last.arg = "5" /\ last.path = "replace" /\ buffer = <<"5">>

\* the text of n/100 for the number n the digits ds spell
Hundredth(ds) == FormatResult(Nearest(DigitsVal(ds, 10), 100))

\* C4: evaluate() on a buffer that is a number N followed by "%" displays N
\* divided by 100.
C4_PercentIsHundredth ==
    [][(/\ Ran("equals")
        /\ Len(buffer) >= 2
        /\ buffer[Len(buffer)] = "%"
        /\ \A i \in 1..(Len(buffer) - 1) : IsDigit(buffer[i]))
       => display' = Hundredth(SubSeq(buffer, 1, Len(buffer) - 1))]_vars

\* C5 as stated: the buffer never holds a character outside the accepted
\* input set.
C5_OnlyAcceptedCharacters == OnlyKeys(variant, buffer)

\* C5, amended: a character outside the accepted input set enters the buffer
\* only by evaluate() or a unary function writing "Error" or a result text,
\* or by memoryRecall() writing the text of the register's number; append of
\* accepted characters, delete and clear never bring one in.
C5_OnlyResultsBringOthers ==
    [][(OnlyKeys(variant, buffer) /\ ~OnlyKeys(variant, buffer'))
       => last'.op \in {"equals", "func", "mem-recall"}]_vars

\* an accepted character has been appended to a buffer of accepted characters
C5_AcceptedAppended ==
    /\ last.op = "append"
    /\ last.path = "concat"
    /\ Len(buffer) >= 2
    /\ OnlyKeys(variant, buffer)

\* C6: once the buffer is "Error", only clear() and append() change it.
C6_ErrorLeftByClearOrAppend ==
    [][(buffer = ErrorStr /\ buffer' # ErrorStr) => last'.op \in {"clear", "append"}]_vars

\* C7: evaluate() on a buffer that is empty or only white space leaves the
\* buffer and the displayed text as they were.
C7_EmptyEvaluateIsNoOp ==
    [][(Ran("equals") /\ Trim(buffer) = <<>>)
       => (buffer' = buffer /\ display' = display)]_vars

\* evaluate() has run on a buffer of white space
C7_BlankEvaluated ==
    /\ last.op = "equals"
    /\ last.path = "empty"
    /\ buffer # <<>>
    /\ \A i \in 1..Len(buffer) : buffer[i] = " "
    /\ display = buffer

\* C8: clear() leaves the buffer empty and the displayed text "0", whatever
\* the state before.
C8_ClearResets == last.op = "clear" => (buffer = <<>> /\ display = <<"0">>)

\* clear() has run with a value in the register, hence after an evaluation
C8_Cleared == last.op = "clear" /\ memory.set /\ buffer = <<>> /\ display = <<"0">>

\* C9: delete() removes exactly the last character of a buffer that is not
\* empty, and leaves the empty buffer empty.
C9_DeleteRemovesLast ==
    [][Ran("delete") =>
         IF buffer = <<>> THEN buffer' = <<>>
         ELSE /\ Len(buffer') = Len(buffer) - 1
              /\ \A i \in 1..Len(buffer') : buffer'[i] = buffer[i]]_vars

\* delete() has left two characters
C9_Deleted == last.op = "delete" /\ Len(buffer) = 2

\* C10: the reciprocal of a buffer that evaluates to zero sets the buffer and
\* the display to "NaN".
C10_ReciprocalOfZeroIsNaN ==
    [][(/\ Ran("func")
        /\ last'.arg = "reciprocal"
        /\ Trim(buffer) # <<>>
        /\ OnlyWhitelist(variant, Prepared(variant, buffer))
        /\ IsZero(NewFunction(Prepared(variant, buffer))))
       => (buffer' = NaNStr /\ display' = NaNStr)]_vars

\* the reciprocal has found a zero
C10_ZeroInverted ==
    /\ last.op = "func"
    /\ last.arg = "reciprocal"
    /\ last.path = "zero"
    /\ buffer = NaNStr
    /\ display = NaNStr

\* the buffer is the text of a number: digits with at most one point
IsNumberText(buf) ==
    /\ \E i \in 1..Len(buf) : IsDigit(buf[i])
    /\ \A i \in 1..Len(buf) : IsDigit(buf[i]) \/ buf[i] = "."
    /\ \A i, j \in 1..Len(buf) : (buf[i] = "." /\ buf[j] = ".") => i = j

\* C11: memoryRecall() with the register unset, or cleared by memoryClear(),
\* sets the buffer to "0"; and after memoryAdd() on a register that read as 0
\* and a buffer holding a number n, memoryRecall() sets the buffer to the
\* string form of n.
C11_MemoryRoundTrip ==
    [][last'.op = "mem-recall" =>
         /\ ~memory.set => buffer' = <<"0">>
         /\ (last.op = "mem-add" /\ last.arg = "default" /\ IsNumberText(buffer))
            => buffer' = StringOf(NewFunction(buffer))]_vars

\* "125" was added to the unset register, and recalled
C11_RoundTripped ==
    /\ last.op = "mem-recall"
    /\ last.arg = "mem-add"
    /\ buffer = <<"1", "2", "5">>
    /\ memory = Stored(<<"1", "2", "5">>)

\* the register memoryAdd (sign = 1) or memorySub leaves where its read threw
DefaultAccumulated(op, buf) ==
    memorySet(AddNum(ZeroV, IF op = "mem-add" THEN evaluateForMemory(buf)
                            ELSE Neg(evaluateForMemory(buf))))

\* C12: a storage access that throws is caught in every file: no exception
\* leaves the handler, the theme detection falls back on the system colour
\* scheme, the toggle and memoryClear leave what is stored, memoryRecall
\* gives "0", and memoryAdd and memorySub leave the register where the write
\* threw and count from 0 where the read threw.
C12_StorageFailuresCaught ==
    [][page'.failed # "none" =>
         /\ ~page'.escaped
         /\ last'.op = "theme-detect" => page'.theme = systemTheme(page.prefersDark)
         /\ last'.op = "theme-toggle" => page'.stored = page.stored
         /\ last'.op = "mem-recall" => buffer' = <<"0">>
         /\ last'.op = "mem-clear" => memory' = memory
         /\ (last'.op \in {"mem-add", "mem-sub"} /\ page'.failed # "read")
            => memory' = memory
         /\ (last'.op \in {"mem-add", "mem-sub"} /\ page'.failed = "read")
            => memory' = DefaultAccumulated(last'.op, buffer)]_vars

C14_AccumulateFrame ==
    [][last'.op \in {"mem-add", "mem-sub"} =>
         /\ buffer' = buffer
         /\ display' = display
         /\ (\/ Trim(buffer) = <<>>
             \/ ~Sanitized(variant, Prepared(variant, buffer))
             \/ NewFunction(Prepared(variant, buffer)).k = "throw")
            => (memory' = memory /\ buffer' # ErrorStr)]_vars

\* memoryAdd() on "1+", which throws, with "2" in the register
C14_ThrowIgnored ==
    /\ last.op = "mem-add"
    /\ last.path = "null"
    /\ buffer = <<"1", "+">>
    /\ display = buffer
    /\ memory = Stored(<<"2">>)

=============================================================================
